---------------------------- MODULE Spec2Model ----------------------------
(***************************************************************************)
(* The Roberta Gulin photography app: the Flask gateway of backend/app.py  *)
(* (five endpoints, each an adapter to S3, Stripe, SNS or Notion) and the  *)
(* two list screens of the Kivy client of mobile/main.py.                  *)
(*                                                                         *)
(* JSON / Python values are tagged records: [t |-> "null"] is None/null,   *)
(* [t |-> "absent"] is a key that a dict does not hold; an "int", a "str",  *)
(* a "list" and a "dict" carry their value in the field int, str, items    *)
(* and map.  A Python exception is the field raised of an operator's       *)
(* result.                                                                 *)
(***************************************************************************)
EXTENDS Integers, Sequences, FiniteSets, TLC

VARIABLES
    \* create_app: the configuration read once from the environment
    boto3,                \* TRUE iff `import boto3` succeeded
    stripe,               \* TRUE iff `import stripe` succeeded
    s3_bucket,            \* os.environ.get("S3_BUCKET_NAME")
    notion_token,         \* os.environ.get("NOTION_TOKEN")
    notion_database_id,   \* os.environ.get("NOTION_DATABASE_ID")
    stripe_secret_key,    \* os.environ.get("STRIPE_SECRET_KEY")
    \* the storage backend
    bucket,               \* the keys stored in the S3 bucket, in listing order
    \* the request the gateway handled last
    request,              \* [route, method, ...input]
    upstream,             \* what the external systems answered to it
    response,             \* [status, body]
    calls,                \* the external calls the handler made, per operation
    sent,                 \* the keyword arguments of each sns publish it made
    \* the client
    grid,                 \* GalleryScreen.grid: the image sources, in order
    events_box,           \* CalendarScreen.events_box: the label texts, in order
    requests              \* the UrlRequests issued so far, in order of issue

vars == <<boto3, stripe, s3_bucket, notion_token, notion_database_id,
          stripe_secret_key, bucket, request, upstream, response, calls, sent,
          grid, events_box, requests>>

configVars == <<boto3, stripe, s3_bucket, notion_token, notion_database_id,
                stripe_secret_key>>

gatewayVars == <<request, upstream, response, calls, sent>>

clientVars == <<grid, events_box, requests>>

---------------------------------------------------------------------------
(* Bounds of the model.                                                    *)

\* pages in one answer of the calendar query
MaxPages == 2

\* UrlRequests the client issues in one run
MaxRequests == 3

---------------------------------------------------------------------------
(* Python and JSON values.                                                 *)

JNull == [t |-> "null"]

JAbsent == [t |-> "absent"]

JInt(n) == [t |-> "int", int |-> n]

JStr(s) == [t |-> "str", str |-> s]

JList(seq) == [t |-> "list", items |-> seq]

JDict(f) == [t |-> "dict", map |-> f]

EmptyMap == [k \in {} |-> JNull]

\* a request body that is not JSON at all
NotJson == [t |-> "notjson"]

IsDict(x) == x.t = "dict"

\* Python truthiness, as `if x:` / `not x` evaluate it
Truthy(x) ==
    CASE x.t = "null" -> FALSE
      [] x.t = "absent" -> FALSE
      [] x.t = "int" -> x.int # 0
      [] x.t = "str" -> x.str # ""
      [] x.t = "list" -> Len(x.items) > 0
      [] x.t = "dict" -> DOMAIN x.map # {}
      [] OTHER -> TRUE

\* dict.get(key, default); d is a dict
PyGet(d, key, default) ==
    IF key \in DOMAIN d.map THEN d.map[key] ELSE default

\* a dict of the given fields, leaving out those whose value is JAbsent
DictOf(fields) ==
    JDict([k \in {f \in DOMAIN fields : fields[f].t # "absent"} |-> fields[k]])

\* the digit strings the model uses, with int() of each
Numerals == [s \in {"500", "12"} |-> IF s = "500" THEN 500 ELSE 12]

\* int(x): the integer, or raised for what int() rejects
PyInt(x) ==
    CASE x.t = "int" -> [raised |-> FALSE, v |-> x.int]
      [] x.t = "str" /\ x.str \in DOMAIN Numerals -> [raised |-> FALSE, v |-> Numerals[x.str]]
      [] OTHER -> [raised |-> TRUE, v |-> 0]

---------------------------------------------------------------------------
(* What a handler yields: the HTTP answer and what it did on the way.      *)

NoCalls ==
    [list_objects_v2 |-> 0, generate_presigned_url |-> 0, upload_fileobj |-> 0,
     PaymentIntent_create |-> 0, publish |-> 0, requests_post |-> 0]

\* the handler made no external call at all
Offline(c) == c = NoCalls

\* return jsonify(body), status
Return(status, body, c, pub, bkt) ==
    [status |-> status, body |-> body, calls |-> c, sent |-> pub, bucket |-> bkt]

\* jsonify({"error": msg})
ErrorBody(msg) == JDict([error |-> JStr(msg)])

\* an exception that leaves the view function: Flask answers 500
Unhandled(c) == Return(500, JStr("Internal Server Error"), c, <<>>, bucket)

\* request.get_json(force=True) on a body that is not JSON: BadRequest
BadRequest == Return(400, JStr("Bad Request"), NoCalls, <<>>, bucket)

---------------------------------------------------------------------------
(* create_app: the clients built from the configuration.                   *)

\* s3_client is not None
s3_client == boto3 /\ Truthy(s3_bucket)

\* sns_client is not None
sns_client == boto3

\* stripe.api_key was set
stripe_api_key_set == stripe /\ Truthy(stripe_secret_key)

---------------------------------------------------------------------------
(* GET /api/health                                                         *)

\* a health check that looks at the storage configuration
health_check_deep ==
    IF boto3 /\ Truthy(s3_bucket)
    THEN Return(200, JDict([status |-> JStr("ok")]), NoCalls, <<>>, bucket)
    ELSE Return(500, JDict([status |-> JStr("degraded")]), NoCalls, <<>>, bucket)

health_check == Return(200, JDict([status |-> JStr("ok")]), NoCalls, <<>>, bucket)

---------------------------------------------------------------------------
(* The storage backend, as the handler uses it.                            *)

\* list_objects_v2 answers with at most this many keys per call
S3MaxKeys == 1000

\* ExpiresIn of the presigned URLs
ExpiresIn == 3600

\* the filename "", for which a FileStorage is falsy; it sorts before every key
EmptyName == 0

Min(a, b) == IF a < b THEN a ELSE b

\* resp.get("Contents", []) of one list_objects_v2 call without a
\* continuation token: the first S3MaxKeys keys in listing order
ListObjectsV2(bkt) == SubSeq(bkt, 1, Min(Len(bkt), S3MaxKeys))

\* generate_presigned_url("get_object", Params={Bucket, Key}, ExpiresIn=3600)
PresignedUrl(key) ==
    [t |-> "url", Bucket |-> s3_bucket, Key |-> key, ExpiresIn |-> ExpiresIn]

\* the bucket after upload_fileobj(file, bucket, name): the object is stored
\* under name, replacing an object of that name
PutObject(bkt, name) ==
    IF \E i \in 1..Len(bkt) : bkt[i] = name
    THEN bkt
    ELSE LET below == SelectSeq(bkt, LAMBDA k : k < name)
             above == SelectSeq(bkt, LAMBDA k : k > name)
         IN  below \o <<name>> \o above

---------------------------------------------------------------------------
(* GET, POST /api/gallery                                                  *)
(* up: [listOk, presignFailAt, uploadOk, message]                          *)

\* a deep check in place of the guard: only the client is looked at, and
\* create_app built it whenever boto3 is there
S3ClientMissing == ~boto3

\* if not s3_client or not s3_bucket
S3NotConfigured == ~s3_client \/ ~Truthy(s3_bucket)

gallery(method, image, up) ==
    IF S3NotConfigured
    THEN Return(500, ErrorBody("S3 is not configured"), NoCalls, <<>>, bucket)
    ELSE IF method = "GET"
    THEN IF ~up.listOk
         THEN Return(500, ErrorBody(up.message),
                     [NoCalls EXCEPT !.list_objects_v2 = 1], <<>>, bucket)
         ELSE LET contents == ListObjectsV2(bucket)
              IN  IF up.presignFailAt \in 1..Len(contents)
                  THEN Return(500, ErrorBody(up.message),
                              [NoCalls EXCEPT !.list_objects_v2 = 1,
                                              !.generate_presigned_url = up.presignFailAt],
                              <<>>, bucket)
                  ELSE Return(200,
                              JList([i \in 1..Len(contents) |->
                                  JDict([key |-> JInt(contents[i]),
                                         url |-> PresignedUrl(contents[i])])]),
                              [NoCalls EXCEPT !.list_objects_v2 = 1,
                                              !.generate_presigned_url = Len(contents)],
                              <<>>, bucket)
    ELSE IF image.t # "file" \/ image.filename = EmptyName
    THEN Return(400, ErrorBody("No file provided"), NoCalls, <<>>, bucket)
    ELSE IF ~up.uploadOk
    THEN Return(500, ErrorBody(up.message),
                [NoCalls EXCEPT !.upload_fileobj = 1], <<>>, bucket)
    ELSE Return(200, JDict([message |-> JStr("File uploaded"),
                            filename |-> JInt(image.filename)]),
                [NoCalls EXCEPT !.upload_fileobj = 1], <<>>,
                PutObject(bucket, image.filename))

---------------------------------------------------------------------------
(* POST /api/payments                                                      *)
(* up: [ok, message, client_secret]                                        *)

\* `if amount == 0` in place of `if not amount`
AmountIsZero(amount) == amount.t = "int" /\ amount.int = 0

\* if not amount
AmountMissing(amount) == ~Truthy(amount)

create_payment(body, up) ==
    IF ~stripe \/ stripe_secret_key.t = "null"
    THEN Return(500, ErrorBody("Payments are not configured"), NoCalls, <<>>, bucket)
    ELSE IF body.t = "notjson"
    THEN BadRequest
    ELSE IF ~IsDict(body)
    THEN Unhandled(NoCalls)
    ELSE LET amount == PyGet(body, "amount", JNull)
             currency == PyGet(body, "currency", JStr("usd"))
         IN  IF AmountMissing(amount)
             THEN Return(400, ErrorBody("Amount is required"), NoCalls, <<>>, bucket)
             ELSE IF PyInt(amount).raised
             THEN Return(500, ErrorBody("invalid literal for int()"), NoCalls, <<>>, bucket)
             ELSE IF ~up.ok
             THEN Return(500, ErrorBody(up.message),
                         [NoCalls EXCEPT !.PaymentIntent_create = 1], <<>>, bucket)
             ELSE Return(200, JDict([client_secret |-> JStr(up.client_secret)]),
                         [NoCalls EXCEPT !.PaymentIntent_create = 1], <<>>, bucket)

---------------------------------------------------------------------------
(* POST /api/notifications                                                 *)
(* up: [ok, message, MessageId]                                            *)

\* `if message == ""` in place of `if not message`
MessageIsEmpty(message) == message.t = "str" /\ message.str = ""

\* if not message
MessageMissing(message) == ~Truthy(message)

\* the phone number tried first
PhoneFirst(topic_arn, phone_number) == Truthy(topic_arn) /\ ~Truthy(phone_number)

\* if topic_arn: ... elif phone_number: ...
TopicFirst(topic_arn, phone_number) == Truthy(topic_arn)

\* a publish that is tried once more when it fails
PublishAgain(kwargs, up) ==
    IF up.ok
    THEN Return(200, JDict([message_id |-> JStr(up.MessageId)]),
                [NoCalls EXCEPT !.publish = 1], <<kwargs>>, bucket)
    ELSE Return(500, ErrorBody(up.message),
                [NoCalls EXCEPT !.publish = 2], <<kwargs, kwargs>>, bucket)

\* response = sns_client.publish(**kwargs), then the message id, or the
\* exception's text from the except clause
Publish(kwargs, up) ==
    IF up.ok
    THEN Return(200, JDict([message_id |-> JStr(up.MessageId)]),
                [NoCalls EXCEPT !.publish = 1], <<kwargs>>, bucket)
    ELSE Return(500, ErrorBody(up.message),
                [NoCalls EXCEPT !.publish = 1], <<kwargs>>, bucket)

send_notification(body, up) ==
    IF ~sns_client
    THEN Return(500, ErrorBody("SNS is not configured"), NoCalls, <<>>, bucket)
    ELSE IF body.t = "notjson"
    THEN BadRequest
    ELSE IF ~IsDict(body)
    THEN Unhandled(NoCalls)
    ELSE LET subject == PyGet(body, "subject", JStr("Notification"))
             message == PyGet(body, "message", JNull)
             topic_arn == PyGet(body, "topic_arn", JNull)
             phone_number == PyGet(body, "phone_number", JNull)
         IN  IF MessageMissing(message)
             THEN Return(400, ErrorBody("Message is required"), NoCalls, <<>>, bucket)
             ELSE IF TopicFirst(topic_arn, phone_number)
             THEN Publish([TopicArn |-> topic_arn, Message |-> message,
                           Subject |-> subject], up)
             ELSE IF Truthy(phone_number)
             THEN Publish([PhoneNumber |-> phone_number, Message |-> message], up)
             ELSE Return(400, ErrorBody("topic_arn or phone_number must be provided"),
                         NoCalls, <<>>, bucket)

---------------------------------------------------------------------------
(* GET /api/calendar                                                       *)
(* up: [raises, status_code, json, message]                                *)

Raised == [raised |-> TRUE, v |-> JNull]

Value(x) == [raised |-> FALSE, v |-> x]

\* "".join(item.get("plain_text", "") for item in title_items)
RECURSIVE JoinPlainText(_)
JoinPlainText(items) ==
    IF items = <<>>
    THEN Value("")
    ELSE IF ~IsDict(Head(items))
    THEN Raised
    ELSE LET text == PyGet(Head(items), "plain_text", JStr(""))
             rest == JoinPlainText(Tail(items))
         IN  IF text.t # "str" \/ rest.raised
             THEN Raised
             ELSE Value(text.str \o rest.v)

\* `for item in x`: the items of a list; nothing for an empty str or dict;
\* the items of a non-empty str or dict are strings, None is not iterable
Items(x) ==
    CASE x.t = "list" -> Value(x.items)
      [] x.t \in {"str", "dict"} /\ ~Truthy(x) -> Value(<<>>)
      [] OTHER -> Raised

\* the body of the loop over data.get("results", []): one page to one event
ParsePage(page) ==
    IF ~IsDict(page)
    THEN Raised
    ELSE LET properties == PyGet(page, "properties", JDict(EmptyMap))
         IN  IF ~IsDict(properties)
             THEN Raised
             ELSE LET title_props == PyGet(properties, "Name", JDict(EmptyMap))
                      Date == PyGet(properties, "Date", JDict(EmptyMap))
                  IN  IF ~IsDict(title_props)
                      THEN Raised
                      ELSE LET title_items == Items(PyGet(title_props, "title", JList(<<>>)))
                               title == IF title_items.raised
                                        THEN Raised
                                        ELSE JoinPlainText(title_items.v)
                           IN  IF title.raised \/ ~IsDict(Date)
                               THEN Raised
                               ELSE LET date_props == PyGet(Date, "date", JDict(EmptyMap))
                                    IN  IF ~IsDict(date_props)
                                        THEN Raised
                                        ELSE Value(JDict(
                                                 [title |-> JStr(title.v),
                                                  start |-> PyGet(date_props, "start", JNull),
                                                  end |-> PyGet(date_props, "end", JNull)]))

\* the loop: the events of the pages, or raised as soon as a page raises
RECURSIVE ParsePages(_)
ParsePages(pages) ==
    IF pages = <<>>
    THEN Value(<<>>)
    ELSE LET first == ParsePage(Head(pages))
             rest == ParsePages(Tail(pages))
         IN  IF first.raised \/ rest.raised
             THEN Raised
             ELSE Value(<<first.v>> \o rest.v)

get_calendar_events(up) ==
    IF ~Truthy(notion_token) \/ ~Truthy(notion_database_id)
    THEN Return(500, ErrorBody("Notion is not configured"), NoCalls, <<>>, bucket)
    ELSE LET one == [NoCalls EXCEPT !.requests_post = 1]
             failed == Return(500, ErrorBody(up.message), one, <<>>, bucket)
         IN  IF up.raises
             THEN failed
             ELSE IF up.status_code # 200
             THEN Return(500, JDict([error |-> JStr("Notion API returned an error"),
                                     details |-> JStr(up.message)]), one, <<>>, bucket)
             ELSE IF ~IsDict(up.json)
             THEN failed
             ELSE LET results == Items(PyGet(up.json, "results", JList(<<>>)))
                      events == IF results.raised THEN Raised ELSE ParsePages(results.v)
                  IN  IF events.raised
                      THEN failed
                      ELSE Return(200, JList(events.v), one, <<>>, bucket)

---------------------------------------------------------------------------
(* The requests and the answers of the external systems that are tried.    *)

\* an environment variable: unset or set
EnvValues(name) == {JNull, JStr(name)}

\* request.files.get("image")
File(name) == [t |-> "file", filename |-> name]

Images == {JNull, File(EmptyName), File(1), File(S3MaxKeys + 2)}

NotCalled == [called |-> FALSE]

\* list_objects_v2 fails, or the presigning of the f-th key fails (0: of none)
ListUps ==
    {[called |-> TRUE, listOk |-> FALSE, presignFailAt |-> 0, message |-> "s3 error"]}
    \cup {[called |-> TRUE, listOk |-> TRUE, presignFailAt |-> f, message |-> "s3 error"] :
            f \in {0, 1, Len(ListObjectsV2(bucket))} \cap 0..Len(ListObjectsV2(bucket))}

UploadUps ==
    {[called |-> TRUE, uploadOk |-> u, message |-> "s3 error"] : u \in BOOLEAN}

Amounts == {JAbsent, JNull, JInt(0), JInt(500), JStr(""), JStr("12"), JStr("abc")}

PaymentBodies ==
    {NotJson, JList(<<>>)}
    \cup {DictOf([amount |-> a, currency |-> c]) :
            a \in Amounts, c \in {JAbsent, JStr("aud")}}

\* Stripe rejects a call made without an api key
PaymentUps ==
    {[called |-> TRUE, ok |-> o, message |-> "stripe error", client_secret |-> "pi_secret"] :
        o \in {FALSE, stripe_api_key_set}}

NotificationBodies ==
    {NotJson, JList(<<>>)}
    \cup {DictOf([subject |-> s, message |-> m, topic_arn |-> t, phone_number |-> p]) :
            s \in {JAbsent, JStr("Booking")},
            m \in {JAbsent, JStr(""), JStr("See you at 10")},
            t \in {JAbsent, JStr(""), JStr("arn:aws:sns:clients")},
            p \in {JAbsent, JStr("+61400000000")}}

NotificationUps ==
    {[called |-> TRUE, ok |-> o, message |-> "sns error", MessageId |-> "mid-1"] :
        o \in BOOLEAN}

\* a complete "Name" property and a complete "Date" property
FullName == JDict([title |-> JList(<<JDict([plain_text |-> JStr("Wedding")])>>)])

FullDate == JDict([date |-> JDict([start |-> JStr("2024-05-01"), end |-> JStr("2024-05-02")])])

\* "Name": absent, without "title", with a title item without "plain_text",
\* complete
NameShapes ==
    {JAbsent, JDict(EmptyMap),
     JDict([title |-> JList(<<JDict(EmptyMap), JDict([plain_text |-> JStr("Shoot")])>>)]),
     FullName}

\* "Date": absent, without "date", complete
DateShapes == {JAbsent, JDict(EmptyMap), FullDate}

\* a date without "end", a title without items
PartShapes ==
    {[Name |-> FullName, Date |-> JDict([date |-> JDict([start |-> JStr("2024-05-01")])])],
     [Name |-> JDict([title |-> JList(<<>>)]), Date |-> FullDate]}

\* the same parts present with the value null, as the Notion API sends an
\* empty property
NullShapes ==
    {[Name |-> JNull, Date |-> FullDate],
     [Name |-> JDict([title |-> JNull]), Date |-> FullDate],
     [Name |-> FullName, Date |-> JNull],
     [Name |-> FullName, Date |-> JDict([date |-> JNull])],
     [Name |-> FullName,
      Date |-> JDict([date |-> JDict([start |-> JStr("2024-05-01"), end |-> JNull])])]}

Pages ==
    {JDict(EmptyMap)}
    \cup {JDict([properties |-> DictOf([Name |-> n, Date |-> d])]) :
            n \in NameShapes, d \in DateShapes}
    \cup {JDict([properties |-> DictOf(p)]) : p \in PartShapes \cup NullShapes}

FullPage == JDict([properties |-> JDict([Name |-> FullName, Date |-> FullDate])])

\* the answers of at most n pages: since the loop treats each page on its
\* own, complete pages with any one page, at any place, among them
PageLists(n) ==
    {<<>>}
    \cup {[i \in 1..k |-> IF i = j THEN p ELSE FullPage] :
            k \in 1..n, j \in 1..n, p \in Pages}

NotionAnswer(raises, status_code, json) ==
    [called |-> TRUE, raises |-> raises, status_code |-> status_code, json |-> json,
     message |-> "notion error"]

CalendarUps ==
    {NotionAnswer(TRUE, 0, JNull), NotionAnswer(FALSE, 401, JNull),
     NotionAnswer(FALSE, 200, NotJson), NotionAnswer(FALSE, 200, JList(<<>>)),
     NotionAnswer(FALSE, 200, JDict(EmptyMap)),
     NotionAnswer(FALSE, 200, JDict([results |-> JNull]))}
    \cup {NotionAnswer(FALSE, 200, JDict([results |-> JList(pages)])) :
            pages \in PageLists(MaxPages)}

---------------------------------------------------------------------------
(* The gateway: Flask runs one view function per request, to completion.   *)

NoRequest == [route |-> "", method |-> ""]

\* some answer of the external system
AnyOf(ups) == CHOOSE u \in ups : TRUE

\* the answers of the external system to draw from: one only when the
\* handler, tried on AnyOf(ups), makes no external call, since it then reads none
Answers(ups, tried) == IF Offline(tried.calls) THEN {AnyOf(ups)} ELSE ups

\* the request is answered with what the view function returned
Handle(req, up, res) ==
    /\ request' = req
    /\ upstream' = IF Offline(res.calls) THEN NotCalled ELSE up
    /\ response' = [status |-> res.status, body |-> res.body]
    /\ calls' = res.calls
    /\ sent' = res.sent
    /\ bucket' = res.bucket

Health ==
    /\ Handle([route |-> "/api/health", method |-> "GET"], NotCalled, health_check)
    /\ UNCHANGED <<configVars, clientVars>>

GalleryGet ==
    /\ \E up \in Answers(ListUps, gallery("GET", JNull, AnyOf(ListUps))) :
          Handle([route |-> "/api/gallery", method |-> "GET"], up,
                 gallery("GET", JNull, up))
    /\ UNCHANGED <<configVars, clientVars>>

GalleryPost ==
    /\ \E image \in Images :
       \E up \in Answers(UploadUps, gallery("POST", image, AnyOf(UploadUps))) :
          Handle([route |-> "/api/gallery", method |-> "POST", image |-> image], up,
                 gallery("POST", image, up))
    /\ UNCHANGED <<configVars, clientVars>>

Payments ==
    /\ \E body \in PaymentBodies :
       \E up \in Answers(PaymentUps, create_payment(body, AnyOf(PaymentUps))) :
          Handle([route |-> "/api/payments", method |-> "POST", body |-> body], up,
                 create_payment(body, up))
    /\ UNCHANGED <<configVars, clientVars>>

Notifications ==
    /\ \E body \in NotificationBodies :
       \E up \in Answers(NotificationUps, send_notification(body, AnyOf(NotificationUps))) :
          Handle([route |-> "/api/notifications", method |-> "POST", body |-> body], up,
                 send_notification(body, up))
    /\ UNCHANGED <<configVars, clientVars>>

Calendar ==
    /\ \E up \in Answers(CalendarUps, get_calendar_events(AnyOf(CalendarUps))) :
          Handle([route |-> "/api/calendar", method |-> "GET"], up,
                 get_calendar_events(up))
    /\ UNCHANGED <<configVars, clientVars>>

---------------------------------------------------------------------------

\* create_app has run; nothing was requested yet
Started ==
    /\ boto3 \in BOOLEAN
    /\ stripe \in BOOLEAN
    /\ s3_bucket \in EnvValues("media")
    /\ notion_token \in EnvValues("secret")
    /\ notion_database_id \in EnvValues("db")
    /\ stripe_secret_key \in EnvValues("sk_test") \cup {JStr("")}
    /\ request = NoRequest
    /\ upstream = NotCalled
    /\ response = [status |-> 0, body |-> JNull]
    /\ calls = NoCalls
    /\ sent = <<>>
    /\ grid = <<>>
    /\ events_box = <<>>
    /\ requests = <<>>

Init ==
    /\ Started
    /\ bucket \in {<<>>, <<1>>}

Next ==
    \/ Health
    \/ GalleryGet
    \/ GalleryPost
    \/ Payments
    \/ Notifications
    \/ Calendar

Spec == Init /\ [][Next]_vars

---------------------------------------------------------------------------
(* Properties of the gateway.                                              *)

OnRoute(route, method) == request.route = route /\ request.method = method

\* the last request was a POST with a JSON object for a body
ObjectBody(route) == OnRoute(route, "POST") /\ IsDict(request.body)

Lacks(key) == key \notin DOMAIN request.body.map

Carries(key) == key \in DOMAIN request.body.map /\ Truthy(request.body.map[key])

PaymentsConfigured == stripe /\ stripe_secret_key.t # "null"

ConfigurationError(msg) == response = [status |-> 500, body |-> ErrorBody(msg)]

\* C1, as claimed: every payment request whose body has no amount is answered
\* 400, in every configuration state of the gateway.
C1_NoAmountIs400InEveryConfiguration ==
    (ObjectBody("/api/payments") /\ Lacks("amount")) => response.status = 400

\* C1, amended: a payment request whose JSON object body has no amount is
\* answered 400 when payments are configured, and 500 "Payments are not
\* configured" when they are not; the processor is not called either way.
C1_NoAmountIs400WhenConfigured ==
    (ObjectBody("/api/payments") /\ Lacks("amount")) =>
        /\ calls = NoCalls
        /\ IF PaymentsConfigured
           THEN response = [status |-> 400, body |-> ErrorBody("Amount is required")]
           ELSE ConfigurationError("Payments are not configured")

C1_Witness ==
    /\ ObjectBody("/api/payments")
    /\ Lacks("amount")
    /\ Carries("currency")
    /\ PaymentsConfigured
    /\ response.status = 400

\* C2: a GET or POST of /api/gallery made while no storage location is
\* configured is answered 500 with the configuration error, and no storage
\* call (list, presign, upload) is made.
C2_GalleryWithoutStorageIs500 ==
    (request.route = "/api/gallery" /\ ~Truthy(s3_bucket)) =>
        /\ ConfigurationError("S3 is not configured")
        /\ calls = NoCalls
        /\ upstream = NotCalled

C2_Witness ==
    /\ OnRoute("/api/gallery", "POST")
    /\ request.image = File(1)
    /\ boto3
    /\ ~Truthy(s3_bucket)
    /\ response.status = 500

\* C3, as claimed: every notification request whose body has no message is
\* answered 400, and nothing is published.
C3_NoMessageIs400 ==
    (ObjectBody("/api/notifications") /\ Lacks("message")) =>
        /\ response.status = 400
        /\ sent = <<>>
        /\ calls.publish = 0

\* C3, amended: a notification request whose JSON object body has no message
\* is answered 400 when the messaging client exists, and 500 "SNS is not
\* configured" when it does not; nothing is published either way.
C3_NoMessageIs400WhenConfigured ==
    (ObjectBody("/api/notifications") /\ Lacks("message")) =>
        /\ sent = <<>>
        /\ calls = NoCalls
        /\ IF sns_client
           THEN response = [status |-> 400, body |-> ErrorBody("Message is required")]
           ELSE ConfigurationError("SNS is not configured")

C3_Witness ==
    /\ ObjectBody("/api/notifications")
    /\ Lacks("message")
    /\ Carries("topic_arn")
    /\ sns_client
    /\ response.status = 400

\* the one publish made was addressed to the topic / to the phone number
PublishedTo(target) ==
    /\ calls.publish = 1
    /\ Len(sent) = 1
    /\ DOMAIN sent[1] \cap {"TopicArn", "PhoneNumber"} = {target}

PublishedToTopic ==
    /\ PublishedTo("TopicArn")
    /\ sent[1].TopicArn = request.body.map["topic_arn"]
    /\ sent[1].Message = request.body.map["message"]

PublishedToPhone ==
    /\ PublishedTo("PhoneNumber")
    /\ sent[1].PhoneNumber = request.body.map["phone_number"]
    /\ sent[1].Message = request.body.map["message"]

RejectedWithoutTarget ==
    /\ response = [status |-> 400,
                   body |-> ErrorBody("topic_arn or phone_number must be provided")]
    /\ sent = <<>>
    /\ calls = NoCalls

\* the three cases of the routing, for a request that carries a message
Routing ==
    /\ (Carries("topic_arn") /\ Carries("phone_number")) => PublishedToTopic
    /\ (~Carries("topic_arn") /\ Carries("phone_number")) => PublishedToPhone
    /\ (~Carries("topic_arn") /\ ~Carries("phone_number")) => RejectedWithoutTarget

\* C4, as claimed: a notification request with a message and both topic_arn
\* and phone_number is published exactly once, to the topic; one with only
\* phone_number is published to the phone number; one with neither is
\* rejected with 400 without publishing.
C4_TopicTakesPrecedence ==
    (ObjectBody("/api/notifications") /\ Carries("message")) => Routing

\* C4, amended: the same, for the requests that reach a gateway whose
\* messaging client exists (without it the answer is 500 "SNS is not
\* configured" and nothing is published).
C4_TopicTakesPrecedenceWhenConfigured ==
    (ObjectBody("/api/notifications") /\ Carries("message")) =>
        IF sns_client
        THEN Routing
        ELSE ConfigurationError("SNS is not configured") /\ sent = <<>> /\ calls = NoCalls

C4_Witness ==
    /\ ObjectBody("/api/notifications")
    /\ Carries("message")
    /\ Carries("topic_arn")
    /\ Carries("phone_number")
    /\ PublishedToTopic
    /\ response.status = 200

\* the calendar query was answered with a success status and a list of entries
CalendarAnswered ==
    /\ OnRoute("/api/calendar", "GET")
    /\ upstream # NotCalled
    /\ ~upstream.raises
    /\ upstream.status_code = 200
    /\ IsDict(upstream.json)
    /\ "results" \in DOMAIN upstream.json.map
    /\ upstream.json.map["results"].t = "list"

\* C5: whatever parts ("Name" and its title items, "Date" and its date value)
\* the entries of a successful calendar query lack, the request succeeds with
\* one record per entry.
C5_LackingPropertiesNeverFail ==
    CalendarAnswered =>
        /\ response.status = 200
        /\ response.body.t = "list"
        /\ Len(response.body.items) = Len(upstream.json.map["results"].items)

\* the dependency of the endpoint requested is not configured
ConfigurationAbsent ==
    \/ request.route = "/api/gallery" /\ S3NotConfigured
    \/ request.route = "/api/payments" /\ ~PaymentsConfigured
    \/ request.route = "/api/notifications" /\ ~sns_client

\* an external call of the request failed
UpstreamFailed ==
    /\ upstream # NotCalled
    /\ \/ OnRoute("/api/gallery", "GET")
          /\ (~upstream.listOk \/ upstream.presignFailAt # 0)
       \/ OnRoute("/api/gallery", "POST") /\ ~upstream.uploadOk
       \/ request.route \in {"/api/payments", "/api/notifications"} /\ ~upstream.ok
       \/ request.route = "/api/calendar"
          /\ (upstream.raises \/ upstream.status_code # 200)

\* C7: on the payment, notification and gallery endpoints, 500 is returned
\* only when the endpoint's dependency is not configured or the external call
\* failed: missing or malformed caller input is answered 400.
C7_InputErrorsAre400 ==
    (request.route \in {"/api/gallery", "/api/payments", "/api/notifications"}
     /\ response.status = 500)
        => (ConfigurationAbsent \/ UpstreamFailed)

\* C8: GET /api/health answers {"status": "ok"} with a success status in
\* every configuration state and after any requests, without an external call.
C8_HealthAlwaysOk ==
    OnRoute("/api/health", "GET") =>
        /\ response = [status |-> 200, body |-> JDict([status |-> JStr("ok")])]
        /\ calls = NoCalls
        /\ upstream = NotCalled
        /\ sent = <<>>

C8_Witness ==
    /\ OnRoute("/api/health", "GET")
    /\ ~stripe
    /\ ~Truthy(notion_token)
    /\ bucket = <<1, S3MaxKeys + 2>>
    /\ response.status = 200

\* C9: a request makes at most one mutating external call and never repeats
\* it; an upload, payment or notification succeeds only if that one call
\* returned; a listing answers a list only if every external step returned.
C9_AllOrNothing ==
    /\ calls.upload_fileobj + calls.PaymentIntent_create + calls.publish <= 1
    /\ Len(sent) = calls.publish
    /\ calls.list_objects_v2 <= 1
    /\ calls.requests_post <= 1
    /\ (OnRoute("/api/gallery", "POST") /\ response.status = 200)
          => (calls.upload_fileobj = 1 /\ upstream.uploadOk)
    /\ (OnRoute("/api/payments", "POST") /\ response.status = 200)
          => (calls.PaymentIntent_create = 1 /\ upstream.ok)
    /\ (OnRoute("/api/notifications", "POST") /\ response.status = 200)
          => (calls.publish = 1 /\ upstream.ok)
    /\ (request.route \in {"/api/gallery", "/api/calendar"} /\ request.method = "GET")
          => /\ response.status = 200 => (upstream # NotCalled /\ ~UpstreamFailed)
             /\ response.body.t = "list" => response.status = 200
             /\ (upstream # NotCalled /\ UpstreamFailed) => response.status = 500

C9_Witness ==
    /\ OnRoute("/api/notifications", "POST")
    /\ calls.publish = 1
    /\ ~upstream.ok
    /\ response.status = 500

---------------------------------------------------------------------------
(* The gateway in front of a bucket of about S3MaxKeys objects.             *)

Keys(n) == [i \in 1..n |-> i]

InitLarge ==
    /\ Started
    /\ boto3
    /\ stripe
    /\ Truthy(s3_bucket)
    /\ Truthy(notion_token)
    /\ Truthy(notion_database_id)
    /\ Truthy(stripe_secret_key)
    /\ bucket \in {Keys(S3MaxKeys - 1), Keys(S3MaxKeys), Keys(S3MaxKeys + 1)}

SpecLarge == InitLarge /\ [][Next]_vars

\* the keys of the items of a gallery answer, in order
ListedKeys == [i \in 1..Len(response.body.items) |-> response.body.items[i].map["key"].int]

\* C6: a successful GET /api/gallery answers one {key, url} item for every
\* object in the bucket, all of them and no others, each url signed for that
\* key with one hour of validity.
C6_ListsEveryStoredObject ==
    (OnRoute("/api/gallery", "GET") /\ response.status = 200) =>
        /\ response.body.t = "list"
        /\ ListedKeys = bucket
        /\ \A i \in 1..Len(response.body.items) :
              response.body.items[i].map["url"] =
                  [t |-> "url", Bucket |-> s3_bucket, Key |-> ListedKeys[i], ExpiresIn |-> 3600]

---------------------------------------------------------------------------
(* The client: the gallery and the calendar screen.                        *)
(* A UrlRequest runs on a thread of its own; its callback is dispatched on  *)
(* the main thread some time after the answer arrived.                     *)

NoAnswer == [kind |-> "none"]

NetworkError == [kind |-> "error"]

HttpAnswer(res) == [kind |-> "response", status |-> res.status, body |-> res.body]

UrlRequest(screen) == [screen |-> screen, state |-> "sent", answer |-> NoAnswer]

\* GalleryScreen.on_pre_enter -> load_images
load_images ==
    /\ Len(requests) < MaxRequests
    /\ grid' = <<>>
    /\ requests' = Append(requests, UrlRequest("gallery"))
    /\ UNCHANGED <<configVars, bucket, gatewayVars, events_box>>

\* CalendarScreen.on_pre_enter -> load_events
load_events ==
    /\ Len(requests) < MaxRequests
    /\ events_box' = <<>>
    /\ requests' = Append(requests, UrlRequest("calendar"))
    /\ UNCHANGED <<configVars, bucket, gatewayVars, grid>>

\* the answers of S3 and Notion while the client runs
ClientListUps == {u \in ListUps : u.presignFailAt = 0}

ClientCalendarUps ==
    {NotionAnswer(TRUE, 0, JNull),
     NotionAnswer(FALSE, 200, JDict([results |-> JList(<<FullPage>>)]))}

Answered(i, answer) ==
    requests' = [requests EXCEPT ![i].state = "answered", ![i].answer = answer]

\* the gateway handles the i-th request
Serve(i) ==
    /\ requests[i].state = "sent"
    /\ \/ /\ requests[i].screen = "gallery"
          /\ \E up \in Answers(ClientListUps, gallery("GET", JNull, AnyOf(ClientListUps))) :
                /\ Handle([route |-> "/api/gallery", method |-> "GET"], up,
                          gallery("GET", JNull, up))
                /\ Answered(i, HttpAnswer(gallery("GET", JNull, up)))
       \/ /\ requests[i].screen = "calendar"
          /\ \E up \in Answers(ClientCalendarUps, get_calendar_events(AnyOf(ClientCalendarUps))) :
                /\ Handle([route |-> "/api/calendar", method |-> "GET"], up,
                          get_calendar_events(up))
                /\ Answered(i, HttpAnswer(get_calendar_events(up)))
    /\ UNCHANGED <<configVars, grid, events_box>>

\* the i-th request does not reach the gateway
Fail(i) ==
    /\ requests[i].state = "sent"
    /\ Answered(i, NetworkError)
    /\ UNCHANGED <<configVars, bucket, gatewayVars, grid, events_box>>

\* load_images.on_success: the sources of the images it adds
RECURSIVE Images_on_success(_)
Images_on_success(items) ==
    IF items = <<>>
    THEN <<>>
    ELSE LET url == PyGet(Head(items), "url", JNull)
         IN  (IF Truthy(url) THEN <<url>> ELSE <<>>) \o Images_on_success(Tail(items))

\* s or 'N/A'
OrNA(x) == IF Truthy(x) THEN x.str ELSE "N/A"

\* load_events.on_success: the texts of the labels it adds
RECURSIVE Events_on_success(_)
Events_on_success(items) ==
    IF items = <<>>
    THEN <<>>
    ELSE LET event == Head(items)
             title == PyGet(event, "title", JStr("(Untitled)"))
             start == PyGet(event, "start", JNull)
             end == PyGet(event, "end", JNull)
         IN  <<title.str \o "\nStart: " \o OrNA(start) \o "\nEnd: " \o OrNA(end)>>
             \o Events_on_success(Tail(items))

\* the items on_success goes through for an answer: UrlRequest calls it for
\* a 2xx answer only, and it returns at once unless the result is a list
Result(answer) ==
    IF answer.kind = "response" /\ answer.status \in 200..299 /\ answer.body.t = "list"
    THEN answer.body.items
    ELSE <<>>

\* the callback of the i-th request runs: on_success, on_error, or none
Deliver(i) ==
    /\ requests[i].state = "answered"
    /\ requests' = [requests EXCEPT ![i].state = "done"]
    /\ IF requests[i].screen = "gallery"
       THEN /\ grid' = grid \o Images_on_success(Result(requests[i].answer))
            /\ UNCHANGED events_box
       ELSE /\ events_box' = events_box \o Events_on_success(Result(requests[i].answer))
            /\ UNCHANGED grid
    /\ UNCHANGED <<configVars, bucket, gatewayVars>>

InitClient ==
    /\ Started
    /\ boto3
    /\ stripe
    /\ Truthy(stripe_secret_key)
    /\ Truthy(notion_database_id)
    /\ bucket \in {<<>>, <<1>>}

NextClient ==
    \/ load_images
    \/ load_events
    \/ \E i \in 1..Len(requests) : Serve(i)
    \/ \E i \in 1..Len(requests) : Fail(i)
    \/ \E i \in 1..Len(requests) : Deliver(i)

SpecClient == InitClient /\ [][NextClient]_vars

\* the requests of a screen, and the one issued last
Issued(screen) == {i \in 1..Len(requests) : requests[i].screen = screen}

Latest(screen) == CHOOSE i \in Issued(screen) : \A j \in Issued(screen) : j <= i

Settled == \A i \in 1..Len(requests) : requests[i].state = "done"

\* C10: once no request is in flight, the image grid holds exactly the images
\* of the answer to the gallery request issued last, and the event list
\* exactly the events of the answer to the calendar request issued last.
C10_ScreenShowsLatestAnswer ==
    Settled =>
        /\ Issued("gallery") # {} =>
              grid = Images_on_success(Result(requests[Latest("gallery")].answer))
        /\ Issued("calendar") # {} =>
              events_box = Events_on_success(Result(requests[Latest("calendar")].answer))

=============================================================================
